---- MODULE Spec2Model ----
(***************************************************************************)
(* A model of package logger (src/logger.go): a leveled logger that routes *)
(* Debug/Info to a "low" writer group and Warn/Error/Fatal to a "high"     *)
(* writer group, serialises the sink writes and the release of the owned   *)
(* closers with one mutex, and on the Fatal path writes, closes and exits. *)
(*                                                                         *)
(* Bytes are modelled as tokens (strings); a destination's content is the  *)
(* sequence of tokens written to it.  A destination's Write is not atomic: *)
(* it appends the first token of the buffer and then the rest, so that two *)
(* unserialised Writes to one destination can tear a line.                 *)
(*                                                                         *)
(* Standard library behaviour the source relies on:                        *)
(*   log.Logger.Output  formats prefix, header and text into one buffer,   *)
(*                      appends a newline when the text does not end with  *)
(*                      one, and issues a single Write to its writer;      *)
(*   io.MultiWriter     writes the buffer to each listed writer in order   *)
(*                      and stops at the first writer that returns an      *)
(*                      error, returning that error.                       *)
(***************************************************************************)
EXTENDS Naturals, Sequences, FiniteSets, TLC

\* ------------------------------------------------------------------ bounds
NThreads == 2
MaxCalls == 2
MaxFaults == 2
MaxDepth == 2

Threads == 1..NThreads

\* --------------------------------------------------------------- severities
Debug == 0
Info  == 1
Warn  == 2
Error == 3
Fatal == 4

Levels == {Debug, Info, Warn, Error, Fatal}

tagDebug == "DEBUG: "
tagInfo  == "INFO : "
tagWarn  == "WARN : "
tagError == "ERROR: "
tagFatal == "FATAL: "

Tags == {tagDebug, tagInfo, tagWarn, tagError, tagFatal}

\* ------------------------------------------------------------ destinations
\* os.Stdout and os.Stderr, and the writers a caller may configure: FileA and
\* FileB implement io.Closer, PlainW is an io.Writer that does not, and LoopW
\* is an io.Writer whose Write calls back into the Logger it is configured on.
Stdout == "stdout"
Stderr == "stderr"
FileA  == "fileA"
FileB  == "fileB"
PlainW == "plainW"
LoopW  == "loopW"
None   == "nil"

Dests == {Stdout, Stderr, FileA, FileB, PlainW, LoopW}

\* output.(io.Closer) succeeds: the files, and os.Stdout and os.Stderr, which
\* are *os.File values too
IsCloser(w) == w \in {Stdout, Stderr, FileA, FileB}

\* ------------------------------------------------------------------ options
defaultLogFlags == {"Ldate", "Lmicroseconds", "Lshortfile"}

\* the flag sets WithLogFlags is given here: the default, none, and one that
\* moves the prefix from the start of the line to the start of the message
FlagSets == {defaultLogFlags, {}, {"Lshortfile", "Lmsgprefix"}}

WithLevel(lv)       == [field |-> "level",        val |-> <<lv>>]
WithInfoLogFile(w)  == [field |-> "infoLogFile",  val |-> <<w>>]
WithErrorLogFile(w) == [field |-> "errorLogFile", val |-> <<w>>]
WithLogFlags(f)     == [field |-> "logFlags",     val |-> <<f>>]

apply(opt, o) == [o EXCEPT ![opt.field] = opt.val[1]]

\* a loop that runs over opts from the last option to the first, so that
\* the first of two options for one field wins
RECURSIVE applyAllReversed(_, _)
applyAllReversed(opts, o) ==
    IF opts = <<>> THEN o ELSE apply(Head(opts), applyAllReversed(Tail(opts), o))

\* for _, opt := range opts { opt.apply(&o) }
RECURSIVE applyAll(_, _)
applyAll(opts, o) ==
    IF opts = <<>> THEN o ELSE applyAll(Tail(opts), apply(Head(opts), o))

\* var DefaultLevel = Debug: the value the package variable starts with
DefaultLevel == Debug

\* the options record New starts from when DefaultLevel holds dl
defaultOptions(dl) ==
    [level |-> dl, infoLogFile |-> None, errorLogFile |-> None,
     logFlags |-> defaultLogFlags]

\* a loop that skips an output it has recorded already
RECURSIVE closersOfDedup(_)
closersOfDedup(outputs) ==
    IF outputs = <<>> THEN <<>>
    ELSE LET rest == closersOfDedup(SubSeq(outputs, 1, Len(outputs) - 1))
             last == outputs[Len(outputs)]
         IN  IF IsCloser(last) /\ last \notin {rest[i] : i \in 1..Len(rest)}
             THEN Append(rest, last) ELSE rest

\* for _, output := range outputs { if c, ok := output.(io.Closer); ok {...} }
RECURSIVE closersOf(_)
closersOf(outputs) ==
    IF outputs = <<>> THEN <<>>
    ELSE (IF IsCloser(Head(outputs)) THEN <<Head(outputs)>> ELSE <<>>)
         \o closersOf(Tail(outputs))

\* a configured file that replaces the console stream instead of joining it
NewILogsFileOnly(o) ==
    IF o.infoLogFile # None THEN <<o.infoLogFile>> ELSE <<Stdout>>

NewILogs(o) ==
    <<Stdout>> \o (IF o.infoLogFile # None THEN <<o.infoLogFile>> ELSE <<>>)

NewELogs(o) ==
    <<Stderr>> \o (IF o.errorLogFile # None THEN <<o.errorLogFile>> ELSE <<>>)

\* a New that takes the closers from the two writer groups themselves
NewOutputsAllWriters(o) == NewILogs(o) \o NewELogs(o)

\* var outputs []io.Writer: the configured files, info first
NewOutputs(o) ==
    (IF o.infoLogFile # None THEN <<o.infoLogFile>> ELSE <<>>)
    \o (IF o.errorLogFile # None THEN <<o.errorLogFile>> ELSE <<>>)

\* New(opts...) called while DefaultLevel holds dl: the options record o New
\* ends with, and the fields of the Logger it returns
New(dl, opts) ==
    LET o == applyAll(opts, defaultOptions(dl)) IN
    [o        |-> o,
     level    |-> o.level,
     logFlags |-> o.logFlags,
     iLogs    |-> NewILogs(o),
     eLogs    |-> NewELogs(o),
     closers  |-> closersOf(NewOutputs(o))]

\* ------------------------------------------------------------------- state
VARIABLES
    defaultLevel, \* the package variable DefaultLevel
    built,      \* New has returned the Logger
    given,      \* <<[opts, dl]>>: the options New was called with and the
                \* DefaultLevel it read, where a specification follows the
                \* call to New; <<>> otherwise
    outer,      \* outer[t]: the write whose destination called back into the
                \* Logger on thread t (noOp when none did)
    options,    \* the options record New built the Logger from
    level,      \* Logger.level
    logFlags,   \* the flags every sink was built with
    iLogs,      \* the writers of the low group, in io.MultiWriter order
    eLogs,      \* the writers of the high group, in io.MultiWriter order
    closers,    \* Logger.closers
    mu,         \* Logger.mu: 0 when unlocked, else the thread that locked it
    out,        \* out[d]: the tokens written to destination d so far
    released,   \* released[d]: how many times d.Close() has been called
    pc,         \* pc[t]: where thread t stands
    cur,        \* cur[t]: the operation thread t is in (or was last in)
    ncalls,     \* ncalls[t]: public operations thread t has started
    wr,         \* wr[t]: position of t's io.MultiWriter.Write
    ci,         \* ci[t]: index of Close's range loop
    hasErr,     \* hasErr[t]: Close's local hasErr
    ret,        \* ret[t]: what t's last Close returned ("nil", "error", "none")
    ev,         \* ev[t]: the calls t's current operation made on destinations
    acq,        \* the writes that locked mu, in lock-acquisition order
    issued,     \* every write operation called so far
    nfaults,    \* errors the destinations have returned so far
    exited      \* os.Exit(1) has been called

vars == <<defaultLevel, built, given, outer, options, level, logFlags, iLogs, eLogs, closers, mu, out, released, pc, cur,
          ncalls, wr, ci, hasErr, ret, ev, acq, issued, nfaults, exited>>

\* ------------------------------------------------------------------- sinks
\* a copy-and-paste slip: warnLog built with tagError
tagOfWarnAsError(lv) ==
    CASE lv = Debug -> tagDebug
      [] lv = Info  -> tagInfo
      [] lv = Warn  -> tagError
      [] lv = Error -> tagError
      [] lv = Fatal -> tagFatal

tagOf(lv) ==
    CASE lv = Debug -> tagDebug
      [] lv = Info  -> tagInfo
      [] lv = Warn  -> tagWarn
      [] lv = Error -> tagError
      [] lv = Fatal -> tagFatal

\* a slip in New: warnLog built over the low group's writer
groupOfWarnLow(lv) == IF lv \in {Debug, Info, Warn} THEN iLogs ELSE eLogs

\* the writers behind debugLog/infoLog (iLogs) and warnLog/errorLog/fatalLog
\* (eLogs), as New binds them
groupOf(lv) == IF lv \in {Debug, Info} THEN iLogs ELSE eLogs

\* the *log.Logger the switch in Logger.log selects for lv
sinkOf(lv) == [writers |-> groupOf(lv), prefix |-> tagOf(lv), flags |-> logFlags]

Range(s) == {s[i] : i \in 1..Len(s)}

\* ------------------------------------------------------------- rendering
\* the text of the k-th operation of thread t: one string operand
MsgText(t, k) == "m" \o ToString(t) \o "." \o ToString(k)

Forms == {"print", "println", "printf", "depth"}

\* fmt.Sprint(s), fmt.Sprintln(s), fmt.Sprintf("%s", s) for one string operand
render(form, s) == IF form = "println" THEN <<s, "\n">> ELSE <<s>>

\* the frames above log.Logger.Output when a public write operation is
\* called through w wrapper functions: stack[1] is Logger.log, stack[2] the
\* public operation, then the wrappers from the innermost (wrapper1, which
\* calls the operation) to the outermost, then the original caller
stack(w) ==
    <<"Logger.log", "Logger.op">> \o [i \in 1..w |-> "wrapper" \o ToString(i)]
    \o <<"caller", "runtime">>

BaseDepth == 3

\* the frame log.Logger.Output(calldepth, ...) reports
frameAt(stk, calldepth) ==
    IF calldepth \in 1..Len(stk) THEN stk[calldepth] ELSE "???"

\* log.Logger.Output: the prefix (unless Lmsgprefix), the header, the prefix
\* (if Lmsgprefix), the text, and a newline when the text lacks one
Output(sink, loc, text) ==
    (IF "Lmsgprefix" \in sink.flags THEN <<>> ELSE <<sink.prefix>>)
    \o (IF {"Ldate", "Lmicroseconds"} \cap sink.flags # {} THEN <<"<time>">> ELSE <<>>)
    \o (IF "Lshortfile" \in sink.flags THEN <<loc>> ELSE <<>>)
    \o (IF "Lmsgprefix" \in sink.flags THEN <<sink.prefix>> ELSE <<>>)
    \o text
    \o (IF text # <<>> /\ text[Len(text)] = "\n" THEN <<>> ELSE <<"\n">>)

\* a Logger.log that passes 3 to Output whatever the extra depth is
lineOfNoDepth(c) ==
    Output(sinkOf(c.level), frameAt(stack(c.wrappers), BaseDepth), c.text)

\* the buffer Logger.log hands to the sink for the operation c
lineOf(c) ==
    Output(sinkOf(c.level), frameAt(stack(c.wrappers), BaseDepth + c.depth), c.text)

\* fmt.Fprintf(os.Stderr, "Failed to close log %v: %v\n", c, err)
diagLine(c) == <<"Failed to close log ", c, "\n">>

noOp == [op |-> "none", level |-> Debug, text |-> <<>>, depth |-> 0, wrappers |-> 0]

\* ------------------------------------------------------------------- Init
Options ==
    {WithLevel(lv) : lv \in Levels}
    \cup {WithInfoLogFile(w) : w \in {FileA, PlainW}}
    \cup {WithErrorLogFile(w) : w \in {FileA, FileB}}
    \cup {WithLogFlags(f) : f \in FlagSets}

MaxOpts == 2

OptLists == UNION {[1..n -> Options] : n \in 0..MaxOpts}

\* no operation has been called on the Logger
NoOperationYet ==
    /\ outer = [t \in Threads |-> noOp]
    /\ mu = 0
    /\ out = [d \in Dests |-> <<>>]
    /\ released = [d \in Dests |-> 0]
    /\ pc = [t \in Threads |-> "idle"]
    /\ cur = [t \in Threads |-> noOp]
    /\ ncalls = [t \in Threads |-> 0]
    /\ wr = [t \in Threads |-> [i |-> 0, part |-> 0, e |-> 0]]
    /\ ci = [t \in Threads |-> 0]
    /\ hasErr = [t \in Threads |-> FALSE]
    /\ ret = [t \in Threads |-> "none"]
    /\ ev = [t \in Threads |-> <<>>]
    /\ acq = <<>>
    /\ issued = {}
    /\ nfaults = 0
    /\ exited = FALSE

\* the state after New(opts...) for some opts of lists, before any operation
InitFrom(lists) ==
    /\ \E opts \in lists :
         LET l == New(DefaultLevel, opts) IN
         /\ options = l.o
         /\ level = l.level
         /\ logFlags = l.logFlags
         /\ iLogs = l.iLogs
         /\ eLogs = l.eLogs
         /\ closers = l.closers
    /\ defaultLevel = DefaultLevel
    /\ built = TRUE
    /\ given = <<>>
    /\ NoOperationYet

Init == InitFrom(OptLists)

\* the option lists of at most one option
FewOptLists == {opts \in OptLists : Len(opts) <= 1}

\* the program has started and has not called New yet: DefaultLevel holds its
\* initial value and the Logger's fields are zero values
BeforeNew ==
    /\ defaultLevel = DefaultLevel
    /\ built = FALSE
    /\ given = <<>>
    /\ options = defaultOptions(DefaultLevel)
    /\ level = Debug
    /\ logFlags = {}
    /\ iLogs = <<>>
    /\ eLogs = <<>>
    /\ closers = <<>>
    /\ NoOperationYet

\* ---------------------------------------------------------------- actions
\* the sum of f over the set S
RECURSIVE sumOver(_, _)
sumOver(f, S) ==
    IF S = {} THEN 0
    ELSE LET x == CHOOSE y \in S : TRUE IN f[x] + sumOver(f, S \ {x})

\* public operations started so far, by all threads
started == sumOver(ncalls, Threads)

\* a call a thread made on a destination (a Write, a Close) or os.Exit, and
\* whether it returned without an error
event(a, d, ok) == [a |-> a, d |-> d, ok |-> ok]

\* a Fatal that exits without l.Close()
afterLogNoClose(lv) == IF lv = Fatal THEN "exit" ELSE "idle"

\* where a public write operation continues once Logger.log has returned:
\* the Fatal family goes on to l.Close() and os.Exit(1)
afterLog(lv) == IF lv = Fatal THEN "closeLock" ELSE "idle"

\* an off-by-one guard: level <= l.level
discardedAtMinimum(lv) == lv <= level

\* a filter that reads the package variable at the time of the write
discardedByDefaultLevel(lv) == lv < defaultLevel

\* the guard at the top of Logger.log
discarded(lv) == lv < level

\* a Logger.log that takes the lock before it compares the severity
logEntryLockFirst(lv) == "lock"

\* where a call of Logger.log goes first: back to the public operation when
\* the severity is below the minimum, else to l.mu.Lock()
logEntry(lv) == IF discarded(lv) THEN afterLog(lv) ELSE "lock"

\* A public write operation (Debug .. Fatalf, and the Depth forms) is called:
\* it renders its text and calls Logger.log, which returns at once when the
\* severity is below the minimum and otherwise goes on to l.mu.Lock().  A
\* Depth form is given the extra depth `depth`.  The operation is called through
\* w wrapper functions; the other forms pass depth 0.
WriteVia(t, lv, form, depth, w) ==
    /\ ~exited
    /\ pc[t] = "idle"
    /\ started < MaxCalls
    /\ form = "depth" \/ depth = 0
    /\ LET c == [op |-> "log", level |-> lv,
                 text |-> render(form, MsgText(t, ncalls[t] + 1)),
                 depth |-> depth, wrappers |-> w] IN
       /\ cur' = [cur EXCEPT ![t] = c]
       /\ issued' = issued \cup {[body |-> MsgText(t, ncalls[t] + 1), level |-> lv]}
    /\ ncalls' = [ncalls EXCEPT ![t] = @ + 1]
    /\ ev' = [ev EXCEPT ![t] = <<>>]
    /\ ret' = [ret EXCEPT ![t] = "none"]
    /\ pc' = [pc EXCEPT ![t] = logEntry(lv)]
    /\ UNCHANGED <<defaultLevel, built, given, outer, options, level, logFlags, iLogs, eLogs, closers, mu, out, released,
                   wr, ci, hasErr, acq, exited, nfaults>>

\* a public write operation called the way its extra depth is meant for: a
\* Depth form with extra depth D from a helper nested D frames deep, the other
\* forms directly
WriteOp(t, lv, form, depth) == WriteVia(t, lv, form, depth, depth)

\* Logger.log and Close without l.mu.Lock()
canLockAlways(t) == TRUE

\* a lock that keeps out only the thread that holds it
canLockOthers(t) == mu # t

\* a re-entrant lock, which lets its holder in again
canLockReentrant(t) == mu = 0 \/ mu = t

\* sync.Mutex.Lock succeeds only on an unlocked mutex
canLock(t) == mu = 0

\* l.mu.Lock() in Logger.log, then the sink formats the line and starts
\* io.MultiWriter.Write at the first writer of the group
logLock(t) ==
    /\ ~exited
    /\ pc[t] = "lock"
    /\ canLock(t)
    /\ mu' = t
    /\ acq' = Append(acq, [body |-> cur[t].text[1], level |-> cur[t].level,
                           line |-> lineOf(cur[t]), got |-> {}])
    /\ wr' = [wr EXCEPT ![t] = [i |-> 1, part |-> 0, e |-> Len(acq) + 1]]
    /\ pc' = [pc EXCEPT ![t] = "write"]
    /\ UNCHANGED <<defaultLevel, built, given, outer, options, level, logFlags, iLogs, eLogs, closers, out, released, cur,
                   ncalls, ci, hasErr, ret, ev, issued, exited, nfaults>>

\* the writer io.MultiWriter.Write is at
writerAt(t) == sinkOf(cur[t].level).writers[wr[t].i]

\* what io.MultiWriter.Write does after writer i returned an error: it
\* returns the error, and Logger.log drops it and goes on to Unlock
afterWriteError(t) == [wr EXCEPT ![t] = [i |-> 0, part |-> 0, e |-> @.e]]

\* the current writer's Write returns an error and writes nothing
destWriteFail(t) ==
    /\ ~exited
    /\ pc[t] = "write"
    /\ wr[t].part = 0
    /\ nfaults < MaxFaults
    /\ nfaults' = nfaults + 1
    /\ ev' = [ev EXCEPT ![t] = Append(@, event("write", writerAt(t), FALSE))]
    /\ wr' = afterWriteError(t)
    /\ pc' = [pc EXCEPT ![t] = IF wr'[t].i = 0 THEN "unlock" ELSE "write"]
    /\ UNCHANGED <<defaultLevel, built, given, outer, options, level, logFlags, iLogs, eLogs, closers, mu, out, released,
                   cur, ncalls, ci, hasErr, ret, acq, issued, exited>>

\* the current writer's Write starts: the first token reaches the destination
destWriteBegin(t) ==
    /\ ~exited
    /\ pc[t] = "write"
    /\ wr[t].part = 0
    /\ out' = [out EXCEPT ![writerAt(t)] = Append(@, Head(acq[wr[t].e].line))]
    /\ wr' = [wr EXCEPT ![t].part = 1]
    /\ UNCHANGED <<defaultLevel, built, given, outer, options, level, logFlags, iLogs, eLogs, closers, mu, released, pc,
                   cur, ncalls, ci, hasErr, ret, ev, acq, issued, exited, nfaults>>

\* the current writer's Write completes; io.MultiWriter.Write moves to the
\* next writer, or returns when there is none
destWriteEnd(t) ==
    /\ ~exited
    /\ pc[t] = "write"
    /\ wr[t].part = 1
    /\ out' = [out EXCEPT ![writerAt(t)] = @ \o Tail(acq[wr[t].e].line)]
    /\ acq' = [acq EXCEPT ![wr[t].e].got = @ \cup {writerAt(t)}]
    /\ ev' = [ev EXCEPT ![t] = Append(@, event("write", writerAt(t), TRUE))]
    /\ IF wr[t].i < Len(sinkOf(cur[t].level).writers)
       THEN /\ wr' = [wr EXCEPT ![t] = [i |-> @.i + 1, part |-> 0, e |-> @.e]]
            /\ pc' = pc
       ELSE /\ wr' = [wr EXCEPT ![t] = [i |-> 0, part |-> 0, e |-> @.e]]
            /\ pc' = [pc EXCEPT ![t] = "unlock"]
    /\ UNCHANGED <<defaultLevel, built, given, outer, options, level, logFlags, iLogs, eLogs, closers, mu, released, cur,
                   ncalls, ci, hasErr, ret, issued, exited, nfaults>>

\* a Logger.log that returns without l.mu.Unlock()
logUnlockKeepsLock(t) ==
    /\ ~exited
    /\ pc[t] = "unlock"
    /\ pc' = [pc EXCEPT ![t] = afterLog(cur[t].level)]
    /\ UNCHANGED <<defaultLevel, built, given, outer, options, level, logFlags, iLogs, eLogs, closers, mu, out,
                   released, cur, ncalls, wr, ci, hasErr, ret, ev, acq, issued,
                   exited, nfaults>>

\* l.mu.Unlock() at the end of Logger.log, and the return to the public
\* operation
logUnlock(t) ==
    /\ ~exited
    /\ pc[t] = "unlock"
    /\ mu' = 0
    /\ pc' = [pc EXCEPT ![t] = afterLog(cur[t].level)]
    /\ UNCHANGED <<defaultLevel, built, given, outer, options, level, logFlags, iLogs, eLogs, closers, out, released, cur,
                   ncalls, wr, ci, hasErr, ret, ev, acq, issued, exited, nfaults>>

\* Close is called by the program
CloseOp(t) ==
    /\ ~exited
    /\ pc[t] = "idle"
    /\ started < MaxCalls
    /\ cur' = [cur EXCEPT ![t] = [noOp EXCEPT !.op = "Close"]]
    /\ ncalls' = [ncalls EXCEPT ![t] = @ + 1]
    /\ ev' = [ev EXCEPT ![t] = <<>>]
    /\ ret' = [ret EXCEPT ![t] = "none"]
    /\ pc' = [pc EXCEPT ![t] = "closeLock"]
    /\ UNCHANGED <<defaultLevel, built, given, outer, options, level, logFlags, iLogs, eLogs, closers, mu, out, released,
                   wr, ci, hasErr, acq, issued, exited, nfaults>>

\* a Close that starts its loop without l.mu.Lock()
closeLockNoLock(t) ==
    /\ ~exited
    /\ pc[t] = "closeLock"
    /\ ci' = [ci EXCEPT ![t] = 1]
    /\ hasErr' = [hasErr EXCEPT ![t] = FALSE]
    /\ pc' = [pc EXCEPT ![t] = "closing"]
    /\ UNCHANGED <<defaultLevel, built, given, outer, options, level, logFlags,
                   iLogs, eLogs, closers, mu, out, released, cur, ncalls, wr,
                   ret, ev, acq, issued, exited, nfaults>>

\* l.mu.Lock() in Close; var hasErr bool
closeLock(t) ==
    /\ ~exited
    /\ pc[t] = "closeLock"
    /\ canLock(t)
    /\ mu' = t
    /\ ci' = [ci EXCEPT ![t] = 1]
    /\ hasErr' = [hasErr EXCEPT ![t] = FALSE]
    /\ pc' = [pc EXCEPT ![t] = "closing"]
    /\ UNCHANGED <<defaultLevel, built, given, outer, options, level, logFlags, iLogs, eLogs, closers, out, released, cur,
                   ncalls, wr, ret, ev, acq, issued, exited, nfaults>>

\* a loop that returns at the first closer that fails
nextCloserStopAtError(i, ok) == IF ok THEN i + 1 ELSE Len(closers) + 1

\* the index Close's loop goes to after closer i returned ok (TRUE) or an
\* error (FALSE)
nextCloser(i, ok) == i + 1

\* one round of Close's loop: c.Close() returns nil or an error; an error is
\* reported on os.Stderr and sets hasErr
closeOne(t, ok) ==
    /\ ~exited
    /\ pc[t] = "closing"
    /\ ci[t] \in 1..Len(closers)
    /\ ok \/ nfaults < MaxFaults
    /\ nfaults' = IF ok THEN nfaults ELSE nfaults + 1
    /\ LET c == closers[ci[t]] IN
       /\ released' = [released EXCEPT ![c] = @ + 1]
       /\ ev' = [ev EXCEPT ![t] = Append(@, event("close", c, ok))]
       /\ out' = IF ok THEN out
                 ELSE [out EXCEPT ![Stderr] = @ \o diagLine(c)]
    /\ hasErr' = [hasErr EXCEPT ![t] = @ \/ ~ok]
    /\ ci' = [ci EXCEPT ![t] = nextCloser(@, ok)]
    /\ UNCHANGED <<defaultLevel, built, given, outer, options, level, logFlags, iLogs, eLogs, closers, mu, pc, cur, ncalls,
                   wr, ret, acq, issued, exited>>

\* what Close returns
closeResult(err) == IF err THEN "error" ELSE "nil"

\* the loop is over: Close returns, and its deferred l.mu.Unlock() runs; a
\* Fatal operation goes on to os.Exit(1)
closeReturn(t) ==
    /\ ~exited
    /\ pc[t] = "closing"
    /\ ci[t] > Len(closers)
    /\ ret' = [ret EXCEPT ![t] = closeResult(hasErr[t])]
    /\ mu' = 0
    /\ pc' = [pc EXCEPT ![t] = IF cur[t].op = "log" THEN "exit" ELSE "idle"]
    /\ UNCHANGED <<defaultLevel, built, given, outer, options, level, logFlags, iLogs, eLogs, closers, out, released, cur,
                   ncalls, wr, ci, hasErr, ev, acq, issued, exited, nfaults>>

\* os.Exit(1): the process is gone, no thread takes another step
osExit(t) ==
    /\ ~exited
    /\ pc[t] = "exit"
    /\ exited' = TRUE
    /\ ev' = [ev EXCEPT ![t] = Append(@, event("exit", None, TRUE))]
    /\ UNCHANGED <<defaultLevel, built, given, outer, options, level, logFlags, iLogs, eLogs, closers, mu, out, released,
                   pc, cur, ncalls, wr, ci, hasErr, ret, acq, issued, nfaults>>

Next ==
    \/ \E t \in Threads, lv \in Levels, form \in Forms, depth \in {0, 1} :
         WriteOp(t, lv, form, depth)
    \/ \E t \in Threads : logLock(t)
    \/ \E t \in Threads : destWriteFail(t)
    \/ \E t \in Threads : destWriteBegin(t)
    \/ \E t \in Threads : destWriteEnd(t)
    \/ \E t \in Threads : logUnlock(t)
    \/ \E t \in Threads : CloseOp(t)
    \/ \E t \in Threads : closeLock(t)
    \/ \E t \in Threads, ok \in BOOLEAN : closeOne(t, ok)
    \/ \E t \in Threads : closeReturn(t)
    \/ \E t \in Threads : osExit(t)

Spec == Init /\ [][Next]_vars

\* the program assigns lv to the package variable DefaultLevel
SetDefaultLevel(lv) ==
    /\ ~exited
    /\ defaultLevel' = lv
    /\ UNCHANGED <<built, given, outer, options, level, logFlags, iLogs, eLogs,
                   closers, mu, out, released, pc, cur, ncalls, wr, ci, hasErr,
                   ret, ev, acq, issued, nfaults, exited>>

\* the program calls New(opts...), which reads DefaultLevel, applies the
\* options and returns the Logger
NewCall(opts) ==
    /\ ~built
    /\ LET l == New(defaultLevel, opts) IN
       /\ options' = l.o
       /\ level' = l.level
       /\ logFlags' = l.logFlags
       /\ iLogs' = l.iLogs
       /\ eLogs' = l.eLogs
       /\ closers' = l.closers
    /\ built' = TRUE
    /\ given' = <<[opts |-> opts, dl |-> defaultLevel]>>
    /\ UNCHANGED <<defaultLevel, outer, mu, out, released, pc, cur, ncalls, wr,
                   ci, hasErr, ret, ev, acq, issued, nfaults, exited>>

\* the option lists that set the minimum severity at most once and then a
\* file for the high group
LevelOptLists ==
    {Append(opts, WithErrorLogFile(FileA)) :
        opts \in {o \in FewOptLists : \A i \in 1..Len(o) : o[i].field = "level"}}

\* A program that assigns DefaultLevel before and after it calls New, and
\* then writes and closes.
LevelNext ==
    \/ \E lv \in Levels : SetDefaultLevel(lv)
    \/ \E opts \in LevelOptLists : NewCall(opts)
    \/ built /\ \E t \in Threads, lv \in Levels : WriteOp(t, lv, "print", 0)
    \/ \E t \in Threads : logLock(t)
    \/ \E t \in Threads : destWriteBegin(t)
    \/ \E t \in Threads : destWriteEnd(t)
    \/ \E t \in Threads : logUnlock(t)
    \/ built /\ \E t \in Threads : CloseOp(t)
    \/ \E t \in Threads : closeLock(t)
    \/ \E t \in Threads, ok \in BOOLEAN : closeOne(t, ok)
    \/ \E t \in Threads : closeReturn(t)
    \/ \E t \in Threads : osExit(t)

LevelSpec == BeforeNew /\ [][LevelNext]_vars

\* A program that assigns DefaultLevel and calls New with any option list.
OptNext ==
    \/ \E lv \in Levels : SetDefaultLevel(lv)
    \/ \E opts \in OptLists : NewCall(opts)

OptSpec == BeforeNew /\ [][OptNext]_vars

\* the text of the write LoopW's Write makes while thread t is in its k-th
\* operation
NestedText(t, k) == MsgText(t, k) \o ".in"

\* LoopW's Write, entered by thread t inside the sink-write critical section,
\* calls a write operation of severity lv on the same Logger before it writes
\* anything: a severity below the minimum returns at once and the Write goes
\* on; any other goes to l.mu.Lock() as every call of Logger.log does, with
\* the interrupted write kept in outer[t].  (What a nested call would return
\* to is not modelled: C17 shows that it never gets past the Lock.)
reenterLog(t, lv) ==
    /\ ~exited
    /\ pc[t] = "write"
    /\ wr[t].part = 0
    /\ writerAt(t) = LoopW
    /\ outer[t] = noOp
    /\ [body |-> NestedText(t, ncalls[t]), level |-> lv] \notin issued
    /\ issued' = issued \cup {[body |-> NestedText(t, ncalls[t]), level |-> lv]}
    /\ IF logEntry(lv) = "lock"
       THEN /\ outer' = [outer EXCEPT ![t] = cur[t]]
            /\ cur' = [cur EXCEPT ![t] = [noOp EXCEPT !.op = "log", !.level = lv,
                                              !.text = <<NestedText(t, ncalls[t])>>]]
            /\ pc' = [pc EXCEPT ![t] = "lock"]
       ELSE UNCHANGED <<outer, cur, pc>>
    /\ UNCHANGED <<defaultLevel, built, given, options, level, logFlags, iLogs,
                   eLogs, closers, mu, out, released, ncalls, wr, ci, hasErr, ret,
                   ev, acq, nfaults, exited>>

\* LoopW's Write, entered by thread t inside the sink-write critical section,
\* calls Close on the same Logger
reenterClose(t) ==
    /\ ~exited
    /\ pc[t] = "write"
    /\ wr[t].part = 0
    /\ writerAt(t) = LoopW
    /\ outer[t] = noOp
    /\ outer' = [outer EXCEPT ![t] = cur[t]]
    /\ cur' = [cur EXCEPT ![t] = [noOp EXCEPT !.op = "Close"]]
    /\ pc' = [pc EXCEPT ![t] = "closeLock"]
    /\ UNCHANGED <<defaultLevel, built, given, options, level, logFlags, iLogs,
                   eLogs, closers, mu, out, released, ncalls, wr, ci, hasErr, ret,
                   ev, acq, issued, nfaults, exited>>

\* the Loggers with LoopW as the file of one group, at minimum Debug or Warn
ReentOptLists ==
    {<<WithInfoLogFile(LoopW)>>, <<WithErrorLogFile(LoopW)>>,
     <<WithLevel(Warn), WithErrorLogFile(LoopW)>>,
     <<WithLevel(Info), WithInfoLogFile(LoopW), WithErrorLogFile(FileA)>>}

\* The operations on a Logger one of whose destinations calls back into it.
ReentNext ==
    \/ Next
    \/ \E t \in Threads, lv \in Levels : reenterLog(t, lv)
    \/ \E t \in Threads : reenterClose(t)

ReentSpec == InitFrom(ReentOptLists) /\ [][ReentNext]_vars

\* The write operations called through any number of wrappers with any extra
\* depth, on a Logger with the default flags or with Lshortfile|Lmsgprefix
\* and a file for the high group.
DepthOptLists ==
    {<<>>, <<WithLogFlags({"Lshortfile", "Lmsgprefix"}), WithErrorLogFile(FileA)>>}

DepthNext ==
    \/ \E t \in Threads, lv \in Levels, form \in Forms, depth \in 0..MaxDepth,
          w \in 0..MaxDepth :
         WriteVia(t, lv, form, depth, w)
    \/ \E t \in Threads : logLock(t)
    \/ \E t \in Threads : destWriteBegin(t)
    \/ \E t \in Threads : destWriteEnd(t)
    \/ \E t \in Threads : logUnlock(t)
    \/ \E t \in Threads : closeLock(t)
    \/ \E t \in Threads, ok \in BOOLEAN : closeOne(t, ok)
    \/ \E t \in Threads : closeReturn(t)
    \/ \E t \in Threads : osExit(t)

DepthSpec == InitFrom(DepthOptLists) /\ [][DepthNext]_vars

\* A thread that is inside an operation goes on running: no step of an
\* operation waits for anything but l.mu, and sync.Mutex hands the lock to a
\* waiter that keeps finding it taken (its starvation mode), so a thread that
\* can lock again and again does lock.  The program itself need not start
\* another operation.
Proceed(t) ==
    \/ destWriteBegin(t)
    \/ destWriteEnd(t)
    \/ logUnlock(t)
    \/ \E ok \in BOOLEAN : closeOne(t, ok)
    \/ closeReturn(t)
    \/ osExit(t)

Fairness ==
    \A t \in Threads :
       /\ WF_vars(Proceed(t))
       /\ SF_vars(logLock(t))
       /\ SF_vars(closeLock(t))

FairSpec == InitFrom(FewOptLists) /\ [][Next]_vars /\ Fairness

\* ------------------------------------------------- reading a destination
\* the complete lines of a token sequence (each ends with "\n"), and the
\* tokens after the last newline
RECURSIVE splitLines(_, _, _)
splitLines(toks, line, lines) ==
    IF toks = <<>> THEN [lines |-> lines, rest |-> line]
    ELSE IF Head(toks) = "\n"
         THEN splitLines(Tail(toks), <<>>, Append(lines, Append(line, "\n")))
         ELSE splitLines(Tail(toks), Append(line, Head(toks)), lines)

linesOf(d) == splitLines(out[d], <<>>, <<>>).lines
restOf(d)  == splitLines(out[d], <<>>, <<>>).rest

Bodies == {c.body : c \in issued}

\* thread t is inside Logger.log's or Close's critical section
inLog(t)   == pc[t] \in {"write", "unlock"}
inClose(t) == pc[t] = "closing"

\* thread t's write operation has returned from Logger.log
logReturned(t) ==
    cur[t].op = "log" /\ pc[t] \in {"idle", "closeLock", "closing", "exit"}

eventsOf(t, a) == SelectSeq(ev[t], LAMBDA e : e.a = a)

\* ---------------------------------------------------------------- claims

\* C1: a write operation at a severity strictly below the Logger's minimum, in
\* any form, appends nothing to any destination and never reaches the sink,
\* whatever the other threads do; a write at a severity at or above the
\* minimum (so also one equal to it) is not discarded: once it has returned
\* it has passed through the sink.
C1_BelowMinimumDiscarded ==
    /\ \A c \in issued : c.level < level =>
         /\ \A d \in Dests : c.body \notin Range(out[d])
         /\ \A i \in 1..Len(acq) : acq[i].body # c.body
    /\ \A t \in Threads : (logReturned(t) /\ cur[t].level >= level) =>
         \E i \in 1..Len(acq) : acq[i].body = cur[t].text[1]

\* a discarded write has returned, and a write at exactly the minimum has
\* reached a destination
C1_Witness ==
    /\ \E t \in Threads : logReturned(t) /\ cur[t].level < level
    /\ \E i \in 1..Len(acq) : acq[i].level = level /\ acq[i].got # {}

\* C2: Debug and Info lines appear only on the writers of the low group,
\* Warn, Error and Fatal lines only on the writers of the high group; and a
\* finished write none of whose destinations returned an error is on every
\* writer of its group.
C2_RoutedToOwnGroup ==
    /\ \A d \in Dests : \A k \in 1..Len(out[d]) :
         /\ out[d][k] \in {tagDebug, tagInfo} => d \in Range(iLogs)
         /\ out[d][k] \in {tagWarn, tagError, tagFatal} => d \in Range(eLogs)
    /\ nfaults = 0 =>
         \A i \in 1..Len(acq) :
            (\A t \in Threads : ~(pc[t] = "write" /\ wr[t].e = i)) =>
               LET grp == IF acq[i].level \in {Debug, Info}
                          THEN Range(iLogs) ELSE Range(eLogs) IN
               /\ acq[i].got = grp
               /\ \A d \in grp : acq[i].body \in Range(out[d])

\* a low and a high line have both been delivered, each to a configured file
\* besides its console stream
C2_Witness ==
    /\ \E i \in 1..Len(acq) : acq[i].level \in {Debug, Info} /\ Cardinality(acq[i].got) = 2
    /\ \E i \in 1..Len(acq) : acq[i].level \in {Warn, Error, Fatal} /\ Cardinality(acq[i].got) = 2

\* the log lines a destination holds, and the lines Close's diagnostics put
\* on it
isDiag(ln) == Len(ln) > 0 /\ ln[1] = "Failed to close log "

logLinesOf(d) == SelectSeq(linesOf(d), LAMBDA ln : ~isDiag(ln))

\* thread t is in the middle of a Write to destination d
midWrite(t, d) == pc[t] = "write" /\ wr[t].part = 1 /\ writerAt(t) = d

\* C3: concurrent writes never tear a line: every destination holds whole
\* lines only, each the rendered line of one write (or one of Close's
\* diagnostics), as many log lines as writes were delivered to it, and at most
\* the head of the one line being written; when every operation has returned
\* and no destination has failed, a destination holds one line for each
\* allowed write of its group.
C3_NoTornLines ==
    \A d \in Dests :
       /\ \A k \in 1..Len(linesOf(d)) :
            \/ \E i \in 1..Len(acq) : linesOf(d)[k] = acq[i].line
            \/ \E c \in Range(closers) : linesOf(d)[k] = diagLine(c)
       /\ Len(logLinesOf(d)) = Cardinality({i \in 1..Len(acq) : d \in acq[i].got})
       /\ IF \E t \in Threads : midWrite(t, d)
          THEN \E t \in Threads :
                  midWrite(t, d) /\ restOf(d) = <<Head(acq[wr[t].e].line)>>
          ELSE restOf(d) = <<>>
       /\ (nfaults = 0 /\ \A t \in Threads : pc[t] = "idle") =>
             Len(logLinesOf(d)) =
                Cardinality({c \in issued :
                    /\ c.level >= level
                    /\ d \in Range(IF c.level \in {Debug, Info} THEN iLogs ELSE eLogs)})

\* two threads have each written a whole line to one shared configured file
C3_Witness ==
    /\ \A t \in Threads : pc[t] = "idle" /\ cur[t].op = "log"
    /\ nfaults = 0
    /\ \E d \in {FileA, FileB, PlainW} : Len(logLinesOf(d)) = NThreads

\* C4: Close calls Close on every owned closer, in order, also after an
\* earlier one has failed, and returns an error exactly when at least one of
\* them failed (nil when all succeed or when there is none).
C4_CloseReleasesAll ==
    \A t \in Threads : ret[t] # "none" =>
       LET rel == eventsOf(t, "close") IN
       /\ Len(rel) = Len(closers)
       /\ \A i \in 1..Len(rel) : rel[i].d = closers[i]
       /\ ret[t] = "error" <=> \E i \in 1..Len(rel) : ~rel[i].ok
       /\ ret[t] \in {"nil", "error"}

\* Close has returned an error after the first of two closers failed and the
\* second was released
C4_Witness ==
    \E t \in Threads :
       /\ ret[t] = "error" /\ cur[t].op = "Close"
       /\ Len(eventsOf(t, "close")) = 2
       /\ ~eventsOf(t, "close")[1].ok /\ eventsOf(t, "close")[2].ok

\* the sequence s is a prefix of the sequence g
isPrefix(s, g) == Len(s) <= Len(g) /\ \A i \in 1..Len(s) : s[i] = g[i]

dests(evs) == [i \in 1..Len(evs) |-> evs[i].d]

\* C5: a Fatal operation writes its message to the high group, then releases
\* every owned closer through Close, and only then terminates the process;
\* it terminates whether or not Close reported a failure, it never returns
\* to its caller, and no thread terminates the process before its write and
\* its release attempts are over.
C5_FatalWriteCloseExit ==
    \A t \in Threads :
       /\ (cur[t].op = "log" /\ cur[t].level = Fatal) => pc[t] # "idle"
       /\ pc[t] = "exit" =>
            LET w == eventsOf(t, "write")
                c == eventsOf(t, "close")
                x == eventsOf(t, "exit") IN
            /\ cur[t].op = "log" /\ cur[t].level = Fatal
            /\ ev[t] = w \o c \o x
            /\ Len(w) >= 1 /\ isPrefix(dests(w), eLogs)
            /\ (\A i \in 1..Len(w) : w[i].ok) => dests(w) = eLogs
            /\ dests(c) = closers
            /\ ret[t] \in {"nil", "error"}
            /\ mu # t
            /\ Len(x) <= 1 /\ (Len(x) = 1 => exited)
       /\ exited => \E u \in Threads : pc[u] = "exit" /\ Len(eventsOf(u, "exit")) = 1

\* the process has terminated after a Fatal whose Close reported a failure
C5_Witness ==
    \E t \in Threads :
       /\ exited /\ pc[t] = "exit" /\ ret[t] = "error"
       /\ Len(eventsOf(t, "write")) = 2

\* C7 (as claimed): once the sink's write of an allowed message is over, a
\* Write has been attempted on every writer of the message's group, also
\* when an earlier writer of the group returned an error.
C7_AllWritersAttempted ==
    \A t \in Threads :
       (cur[t].op = "log" /\ cur[t].level >= level
          /\ pc[t] \in {"unlock", "idle", "closeLock", "closing", "exit"}) =>
       {e.d : e \in Range(eventsOf(t, "write"))}
          = Range(IF cur[t].level \in {Debug, Info} THEN iLogs ELSE eLogs)

\* the message bodies a destination holds, in the order they appear
bodiesOf(d) == SelectSeq(out[d], LAMBDA tok : tok \in Bodies)

\* the bodies of the writes that locked mu, in lock-acquisition order
acqBodies == [i \in 1..Len(acq) |-> acq[i].body]

\* C8: every destination shows its messages in the order in which their
\* writes acquired the lock, each once, whatever their severities; so any
\* two destinations show the messages they share in the same relative order.
C8_LockAcquisitionOrder ==
    /\ \A d \in Dests :
          bodiesOf(d) = SelectSeq(acqBodies, LAMBDA b : b \in Range(bodiesOf(d)))
    /\ \A d1 \in Dests, d2 \in Dests :
          SelectSeq(bodiesOf(d1), LAMBDA b : b \in Range(bodiesOf(d2)))
             = SelectSeq(bodiesOf(d2), LAMBDA b : b \in Range(bodiesOf(d1)))

\* the threads' writes took the lock in the reverse of thread order, at two
\* severities, and both are on the console stream and on the configured file
C8_Witness ==
    /\ Len(acq) = 2
    /\ acq[1].body = MsgText(2, 1) /\ acq[2].body = MsgText(1, 1)
    /\ acq[1].level # acq[2].level
    /\ \E d \in {FileA, FileB, PlainW} : bodiesOf(d) = <<MsgText(2, 1), MsgText(1, 1)>>
    /\ \E d \in {Stdout, Stderr} : bodiesOf(d) = <<MsgText(2, 1), MsgText(1, 1)>>

\* the tokens of destination d that are severity tags of the set T
hasTag(d, T) == \E k \in 1..Len(out[d]) : out[d][k] \in T

\* C9: whatever the options, the low group holds standard output first and
\* the high group standard error first, so every severity's sink writes to
\* its console stream; a group with no file configured is exactly its
\* console stream, and with no file configured at all Debug/Info lines are
\* on standard output only and Warn/Error/Fatal lines on standard error only.
C9_ConsoleAlwaysRouted ==
    /\ Len(iLogs) >= 1 /\ iLogs[1] = Stdout
    /\ Len(eLogs) >= 1 /\ eLogs[1] = Stderr
    /\ \A lv \in {Debug, Info} : Stdout \in Range(sinkOf(lv).writers)
    /\ \A lv \in {Warn, Error, Fatal} : Stderr \in Range(sinkOf(lv).writers)
    /\ options.infoLogFile = None => iLogs = <<Stdout>>
    /\ options.errorLogFile = None => eLogs = <<Stderr>>
    /\ options.infoLogFile # None => iLogs = <<Stdout, options.infoLogFile>>
    /\ options.errorLogFile # None => eLogs = <<Stderr, options.errorLogFile>>
    /\ (options.infoLogFile = None /\ options.errorLogFile = None) =>
         \A d \in Dests :
            /\ hasTag(d, {tagDebug, tagInfo}) => d = Stdout
            /\ hasTag(d, {tagWarn, tagError, tagFatal}) => d = Stderr

\* with no file configured an Info line is on standard output and an Error
\* line on standard error
C9_Witness ==
    /\ options.infoLogFile = None /\ options.errorLogFile = None
    /\ hasTag(Stdout, {tagInfo}) /\ hasTag(Stderr, {tagError})
    /\ \A t \in Threads : pc[t] = "idle"

\* the tag the interface promises for a severity
promisedTag(lv) ==
    CASE lv = 0 -> "DEBUG: "
      [] lv = 1 -> "INFO : "
      [] lv = 2 -> "WARN : "
      [] lv = 3 -> "ERROR: "
      [] lv = 4 -> "FATAL: "

\* the line ln ends with the tokens of s
endsWith(ln, s) ==
    Len(s) <= Len(ln) /\ SubSeq(ln, Len(ln) - Len(s) + 1, Len(ln)) = s

\* the severity tags of the line ln, in order
tagsIn(ln) == SelectSeq(ln, LAMBDA tok : tok \in Tags)

\* C10: the line of a write at an allowed severity S carries the tag of S
\* and no other tag, before its body, and ends with the rendered message and
\* one line end; this holds of the line the sink is handed and of every log
\* line a destination holds.
C10_TagAndBody ==
    /\ \A i \in 1..Len(acq) :
          LET ln == acq[i].line IN
          /\ acq[i].level >= level
          /\ tagsIn(ln) = <<promisedTag(acq[i].level)>>
          /\ endsWith(ln, <<promisedTag(acq[i].level), acq[i].body, "\n">>)
               \/ ln[1] = promisedTag(acq[i].level)
          /\ endsWith(ln, <<acq[i].body, "\n">>)
          /\ Cardinality({k \in 1..Len(ln) : ln[k] = "\n"}) = 1
    /\ \A t \in Threads : pc[t] \in {"write", "unlock"} =>
          endsWith(acq[wr[t].e].line,
                   cur[t].text \o (IF cur[t].text[Len(cur[t].text)] = "\n"
                                   THEN <<>> ELSE <<"\n">>))
    /\ \A d \in Dests : \A k \in 1..Len(logLinesOf(d)) :
          LET ln == logLinesOf(d)[k] IN
          \E c \in issued :
             /\ c.level >= level
             /\ tagsIn(ln) = <<promisedTag(c.level)>>
             /\ endsWith(ln, <<c.body, "\n">>)

\* a line-terminated Warn write at the minimum Warn has returned and its
\* line, tagged WARN, is on a destination; so is an Error line
C10_Witness ==
    /\ level = Warn
    /\ \E t \in Threads : \E d \in Dests : \E k \in 1..Len(logLinesOf(d)) :
          /\ logReturned(t) /\ cur[t].level = Warn
          /\ cur[t].text = <<MsgText(t, ncalls[t]), "\n">>
          /\ tagsIn(logLinesOf(d)[k]) = <<"WARN : ">>
          /\ endsWith(logLinesOf(d)[k], cur[t].text)
    /\ \E d \in Dests : \E k \in 1..Len(logLinesOf(d)) :
          tagsIn(logLinesOf(d)[k]) = <<"ERROR: ">>

\* thread t is in a Fatal operation
onFatal(t) == cur[t].op = "log" /\ cur[t].level = Fatal

\* C6: a thread never holds l.mu when it is about to lock it for Close, on
\* the Fatal path or elsewhere, so Close cannot deadlock on its caller's own
\* lock; and under fair scheduling, whatever writes and Close calls the other
\* threads make, a Fatal operation that waits for the lock in Close gets it
\* (unless the process has terminated first), and a Fatal operation always
\* ends in the termination of the process.
C6_FatalCloseTerminates ==
    /\ [](\A t \in Threads : pc[t] \in {"lock", "closeLock"} => mu # t)
    /\ \A t \in Threads :
          (onFatal(t) /\ pc[t] = "closeLock") ~> (pc[t] = "closing" \/ exited)
    /\ \A t \in Threads : onFatal(t) ~> exited

\* a Fatal operation waits for the lock in Close while another thread holds
\* it inside a write or inside Close
C6_Witness ==
    \E t \in Threads, u \in Threads :
       /\ onFatal(t) /\ pc[t] = "closeLock"
       /\ u # t /\ mu = u /\ (inLog(u) \/ inClose(u))

\* ------------------------------------------------------------------- C11
\* the frame names a line can carry
FrameNames == Range(stack(MaxDepth)) \cup {"???"}

\* the locations a line reports
locsIn(ln) == SelectSeq(ln, LAMBDA x : x \in FrameNames)

\* the line of the write thread t is in
lineIn(t) == acq[wr[t].e].line

\* C11: with Lshortfile set, the line of a write reports exactly one
\* location.  A Depth form given the extra depth D and called from a helper
\* nested D frames deep reports the original caller, not a helper; with extra
\* depth 0, and for every other form, the line reports the frame that called
\* the public operation: the caller itself, or the innermost wrapper when
\* the operation is called through wrappers.
C11_ReportedLocation ==
    \A t \in Threads :
       (pc[t] \in {"write", "unlock"} /\ "Lshortfile" \in logFlags) =>
          /\ Len(locsIn(lineIn(t))) = 1
          /\ cur[t].depth = cur[t].wrappers => locsIn(lineIn(t)) = <<"caller">>
          /\ (cur[t].depth = 0 /\ cur[t].wrappers > 0)
               => locsIn(lineIn(t)) = <<"wrapper1">>

\* a DebugDepth .. FatalDepth with extra depth 2 called through two helpers
\* has written its whole line, with the caller's location, to the console
C11_Witness ==
    \E t \in Threads :
       /\ pc[t] = "unlock"
       /\ "Lshortfile" \in logFlags
       /\ cur[t].depth = 2 /\ cur[t].wrappers = 2
       /\ locsIn(lineIn(t)) = <<"caller">>
       /\ \E d \in {Stdout, Stderr} : lineIn(t) \in Range(linesOf(d))

\* ------------------------------------------------------------------- C12
\* the minimum severity an option list asks for when DefaultLevel holds dl:
\* the value of its last WithLevel, or dl when it has none
RECURSIVE levelGiven(_, _)
levelGiven(opts, dl) ==
    IF opts = <<>> THEN dl
    ELSE IF opts[Len(opts)].field = "level" THEN opts[Len(opts)].val[1]
         ELSE levelGiven(SubSeq(opts, 1, Len(opts) - 1), dl)

\* the minimum severity New fixed
fixedLevel == levelGiven(given[1].opts, given[1].dl)

\* C12: the minimum severity is fixed when New runs: it is the value of the
\* last WithLevel option, or the value DefaultLevel held when New ran; no
\* step after New changes it, whatever DefaultLevel is assigned later and
\* whatever is written or closed, and it is the value every write is
\* filtered by: a write below it never locks, a write at or above it that
\* has returned has locked.
C12_MinimumFixedAtNew ==
    /\ [](built => level = fixedLevel)
    /\ [][built => level' = level]_vars
    /\ [](built =>
            /\ \A c \in issued : c.level < fixedLevel => c.body \notin Range(acqBodies)
            /\ \A t \in Threads :
                  (cur[t].op = "log" /\ cur[t].level >= fixedLevel /\ logReturned(t))
                     => cur[t].text[1] \in Range(acqBodies))

\* New ran without a WithLevel while DefaultLevel held Warn, DefaultLevel was
\* assigned Debug afterwards, and an Info write has returned unwritten
C12_Witness ==
    /\ built
    /\ \A i \in 1..Len(given[1].opts) : given[1].opts[i].field # "level"
    /\ given[1].dl = Warn
    /\ defaultLevel = Debug
    /\ level = Warn
    /\ \E t \in Threads :
          /\ cur[t].op = "log" /\ cur[t].level = Info /\ logReturned(t)
          /\ cur[t].text[1] \notin Range(acqBodies)

\* ------------------------------------------------------------------- C13
\* the value an option list leaves in field f: that of its last option for
\* f, or dflt when it has none
RECURSIVE lastVal(_, _, _)
lastVal(opts, f, dflt) ==
    IF opts = <<>> THEN dflt
    ELSE IF opts[Len(opts)].field = f THEN opts[Len(opts)].val[1]
         ELSE lastVal(SubSeq(opts, 1, Len(opts) - 1), f, dflt)

\* opts with the options at i and i+1 exchanged
swapAt(opts, i) ==
    [k \in 1..Len(opts) |-> IF k = i THEN opts[i + 1]
                            ELSE IF k = i + 1 THEN opts[i] ELSE opts[k]]

\* C13: the options record New ends with starts from the defaults (minimum
\* severity the DefaultLevel New read, flags date|microseconds|short file,
\* no file for either group) and holds, for each field, the value of the
\* last option given for that field; exchanging two neighbouring options
\* for different fields gives the same Logger.
C13_OptionsInOrder ==
    built =>
       LET opts == given[1].opts IN
       /\ options.level = lastVal(opts, "level", given[1].dl)
       /\ options.infoLogFile = lastVal(opts, "infoLogFile", None)
       /\ options.errorLogFile = lastVal(opts, "errorLogFile", None)
       /\ options.logFlags
            = lastVal(opts, "logFlags", {"Ldate", "Lmicroseconds", "Lshortfile"})
       /\ level = options.level
       /\ logFlags = options.logFlags
       /\ \A i \in 1..(Len(opts) - 1) :
             opts[i].field # opts[i + 1].field =>
                New(given[1].dl, swapAt(opts, i))
                   = [o |-> options, level |-> level, logFlags |-> logFlags,
                      iLogs |-> iLogs, eLogs |-> eLogs, closers |-> closers]

\* New was given two different options for one field and the second one won
C13_Witness ==
    /\ built
    /\ Len(given[1].opts) = 2
    /\ given[1].opts[1].field = given[1].opts[2].field
    /\ given[1].opts[1].val # given[1].opts[2].val
    /\ options[given[1].opts[2].field] = given[1].opts[2].val[1]

\* ------------------------------------------------------------------- C14
\* how many times the operation thread t is in (or was last in) has called
\* d.Close()
releasesBy(t, d) == Len(SelectSeq(ev[t], LAMBDA e : e.a = "close" /\ e.d = d))

\* thread t's last operation was a Close (its own, or that of its Fatal)
\* that has returned
closeReturned(t) == ret[t] # "none"

\* every release of a destination that an operation has made is all the
\* releases that destination has had: no two Close calls released it
noReleaseByLaterClose ==
    \A t \in Threads : \A d \in Dests :
       releasesBy(t, d) > 0 => released[d] = releasesBy(t, d)

\* C14: once a Close has returned the closer list is empty, and no Close
\* releases a destination that an earlier Close has released.
C14_CloseEmptiesClosers ==
    /\ (\E t \in Threads : closeReturned(t)) => closers = <<>>
    /\ noReleaseByLaterClose

\* ------------------------------------------------------------------- C15
\* the threads inside the sink-write or the closer-release critical section
inSection == {t \in Threads : inLog(t) \/ inClose(t)}

\* C15: one lock covers the sink-write critical section of Logger.log and
\* the release critical section of Close: at most one thread is inside
\* either of them, it is the thread that holds the lock, and the lock is
\* free when no thread is inside; so no release overlaps a write and no two
\* Close calls release at the same time.
C15_OneLockBothSections ==
    /\ Cardinality(inSection) <= 1
    /\ \A t \in inSection : mu = t
    /\ inSection = {} => mu = 0
    /\ \A t, u \in Threads : \A d \in Dests : ~(midWrite(t, d) /\ inClose(u))
    /\ \A t, u \in Threads : (inClose(t) /\ inClose(u)) => t = u

\* a Close waits for the lock while another thread is in the middle of a
\* write to a file the Close is about to release
C15_Witness ==
    \E t, u \in Threads :
       /\ t # u
       /\ \E d \in Range(closers) : midWrite(t, d)
       /\ pc[u] = "closeLock"

\* ------------------------------------------------------------------- C16
\* C16: a write below the minimum severity returns without locking: no
\* thread at or past l.mu.Lock() in Logger.log carries a severity below the
\* minimum, and in every state, whoever holds the lock, a thread that may
\* start an operation can make such a write, which is over in that one step
\* and leaves the lock as it was.
C16_DiscardedNeverLocks ==
    /\ \A t \in Threads :
          pc[t] \in {"lock", "write", "unlock"} => cur[t].level >= level
    /\ \A t \in Threads : \A lv \in Levels :
          (lv < level /\ pc[t] = "idle" /\ started < MaxCalls /\ ~exited) =>
             ENABLED (WriteOp(t, lv, "print", 0) /\ pc'[t] = "idle" /\ mu' = mu)

\* a thread holds the lock in the middle of a write, and another thread has
\* a write below the minimum behind it, which locked nothing
C16_Witness ==
    \E t, u \in Threads :
       /\ t # u
       /\ mu = u /\ \E d \in Dests : midWrite(u, d)
       /\ cur[t].op = "log" /\ cur[t].level < level /\ pc[t] = "idle"
       /\ cur[t].text[1] \notin Range(acqBodies)

\* ------------------------------------------------------------------- C17
\* thread t called a write of allowed severity, or Close, from within the
\* write critical section it is in
reentered(t) == outer[t] # noOp

\* C17: the lock is not re-entrant.  A thread that calls a write of allowed
\* severity, or Close, on the Logger from within the write critical section
\* stands at l.mu.Lock() holding the lock itself, and stays there: from then
\* on no step moves it, the lock stays taken, and every other thread that
\* has come to l.mu.Lock(), in a write or in Close, stays there too.
C17_ReentryDeadlocks ==
    /\ [](\A t \in Threads :
            reentered(t) => (pc[t] \in {"lock", "closeLock"} /\ mu = t))
    /\ [][\A t \in Threads :
            reentered(t) =>
               /\ pc'[t] = pc[t]
               /\ mu' = t
               /\ reentered(t)'
               /\ \A u \in Threads :
                     pc[u] \in {"lock", "closeLock"} => pc'[u] = pc[u]]_vars

\* a thread stands at the Lock of a write it made from within LoopW's Write,
\* and another thread has since called an operation and stands at its Lock
C17_Witness ==
    \E t, u \in Threads :
       /\ t # u
       /\ reentered(t) /\ cur[t].op = "log" /\ pc[t] = "lock" /\ mu = t
       /\ pc[u] \in {"lock", "closeLock"}

\* ------------------------------------------------------------------- C18
\* the destinations of the two writer groups
groupDests == Range(iLogs) \cup Range(eLogs)

\* the destinations given with WithInfoLogFile and WithErrorLogFile
configured == {options.infoLogFile, options.errorLogFile} \ {None}

wroteAfterClose(t) ==
    /\ pc[t] = "unlock"
    /\ \/ \E u \in Threads \ {t} : closeReturned(u)
       \/ \E d \in Dests : released[d] >= 1

\* the destinations thread t's operation has called Write on
attempted(t) == {e.d : e \in Range(eventsOf(t, "write"))}

\* C19 (as claimed): the Logger has no closed state.  A write of allowed
\* severity whose critical section comes after a Close has returned has
\* still attempted a Write on every destination of its group, released
\* files included; and the minimum severity and the two writer groups are
\* what New made them, whatever has been closed.
C19_NoClosedState ==
    /\ \A t \in Threads :
          wroteAfterClose(t) =>
             attempted(t) = Range(IF cur[t].level \in {Debug, Info} THEN iLogs ELSE eLogs)
    /\ level = options.level
    /\ iLogs = NewILogs(options)
    /\ eLogs = NewELogs(options)

\* ------------------------------------------------------------------- C20
\* the destinations thread t's operation has called Close on, in order
releasedBy(t) == [i \in 1..Len(eventsOf(t, "close")) |-> eventsOf(t, "close")[i].d]

\* C20: the closer list holds one entry for each file option that was given
\* a closable destination, the info file's before the error file's, also
\* when both are the same destination.  One Close releases the entries in
\* that order, once each: a destination configured for both groups is
\* released twice by one Close, and a Close one of whose releases failed,
\* the second of the same destination included, returns an error.
C20_OneEntryPerFileOption ==
    /\ closers = (IF IsCloser(options.infoLogFile)
                   THEN <<options.infoLogFile>> ELSE <<>>)
                 \o (IF IsCloser(options.errorLogFile)
                     THEN <<options.errorLogFile>> ELSE <<>>)
    /\ \A t \in Threads :
          /\ inClose(t) => releasedBy(t) = SubSeq(closers, 1, ci[t] - 1)
          /\ closeReturned(t) =>
                /\ releasedBy(t) = closers
                /\ (options.infoLogFile = options.errorLogFile
                      /\ IsCloser(options.infoLogFile))
                     => releasesBy(t, options.infoLogFile) = 2
                /\ (\E e \in Range(eventsOf(t, "close")) : ~e.ok) => ret[t] = "error"

\* FileA was configured for both groups; one Close has released it twice,
\* the second release failed, and the Close returned an error
C20_Witness ==
    \E t \in Threads :
       /\ closeReturned(t)
       /\ options.infoLogFile = FileA /\ options.errorLogFile = FileA
       /\ closers = <<FileA, FileA>>
       /\ eventsOf(t, "close")
            = <<event("close", FileA, TRUE), event("close", FileA, FALSE)>>
       /\ released[FileA] = 2
       /\ ret[t] = "error"
====
